---- MODULE Spec2Model ----
(***************************************************************************)
(* A model of pylib/gyp/__init__.py: the platform Triple, the executable   *)
(* locator (find_executables), the identifiers (identify_cc,               *)
(* identify_make), the flag regeneration engine (RegenerateFlags /         *)
(* RegenerateAppendFlag / RegeneratableOptionParser) and the tool          *)
(* discovery of gyp_main with the finders find_cc, find_cxx, find_ar and   *)
(* find_link.                                                              *)
(*                                                                         *)
(* Text that the code takes apart (triples, command line tokens, values of *)
(* environment variables) is a sequence of one-character strings, so that  *)
(* split, format, join and parse are computed character by character.      *)
(***************************************************************************)
EXTENDS FiniteSets, Integers, Sequences, TLC

VARIABLES
  \* ---- Triple.parse / Triple.__str__
  tpc,        \* position: "idle", "start", "parsed", "raised", "done"
  text,       \* the argument of Triple.parse
  triple,     \* what Triple.parse returned or raised
  tstr,       \* str(triple)
  \* ---- find_executables
  fpc,        \* position of the generator: "idle", "created", "yield", "stop"
  platform,   \* sys.platform
  names,      \* the `names` argument
  pathsGiven, \* FALSE when the `paths` argument is None
  paths,      \* the caller's list object passed as `paths`
  envPATH,    \* os.getenv('PATH', '')
  envPATHEXT, \* os.getenv('PATHEXT', '')
  execs,      \* file system: the paths that exist and are executable
  nonexec,    \* file system: the paths that exist and are not executable
  pathlist,   \* the generator's local `pathlist`
  exts,       \* the generator's local `exts`
  pos,        \* how many (name, prefix, suffix) iterations are behind the generator
  yielded,    \* the paths yielded so far, in order
  origin,     \* for each yielded path, <<name index, prefix index, suffix index>>
  \* ---- identify_cc
  cpc,        \* position: "idle", "start", "probed1", "probe2", "probed2",
              \*           "returned", "raised"
  o1,         \* stderr of the probe without arguments, as lines
  o2,         \* stderr of the probe with -v, as lines
  ccResult,   \* what identify_cc returned or raised
  cprobes,    \* the subprocess.Popen calls made so far: <<arguments, launched>>
  \* ---- RegenerateFlags / RegeneratableOptionParser
  rpc,        \* position: "idle", "start", "regenerated", "raised", "parsed",
              \*           "parse_error", "done"
  table,      \* options._regeneration_metadata, in iteration order
  options,    \* the options snapshot: dest -> value
  environ,    \* os.environ: name -> [set, val]
  regen1,     \* the first RegenerateFlags(options): tokens, warnings, error
  reparsed,   \* parse_args(tokens of regen1): the snapshot, or the error
  regen2,     \* RegenerateFlags of the re-parsed snapshot
  \* ---- identify_make
  mpc,        \* position: "idle", "start", "probed1", "probe2", "probed2",
              \*           "returned", "raised"
  mstdout,    \* stdout of the probe with --version
  mstderr,    \* stderr of the probe with --help
  makeResult, \* what identify_make returned or raised
  mprobes,    \* the subprocess.Popen calls made so far: <<arguments, launched>>
  \* ---- gyp_main: tool discovery (lines 689-712) and later finder calls
  gpc,        \* position: "idle", "start", "find", "exported", "later", "raised"
  gplatform,  \* sys.platform
  android,    \* options.android
  genv,       \* os.environ: name -> [set, val]
  gexecs,     \* file system: the paths that exist and are executable
  gpaths,     \* the list object `paths` of line 695-699
  toolPaths,  \* cc_path, cxx_path, ar_path, link_path as far as computed
  scanned,    \* the find_executables searches run: <<kind, pathlist scanned>>
  later       \* a finder call made after the discovery: what it yields

tripleVars == <<tpc, text, triple, tstr>>
findVars == <<fpc, platform, names, pathsGiven, paths, envPATH, envPATHEXT,
              execs, nonexec, pathlist, exts, pos, yielded, origin>>
ccVars == <<cpc, o1, o2, ccResult, cprobes>>
regenVars == <<rpc, table, options, environ, regen1, reparsed, regen2>>
makeVars == <<mpc, mstdout, mstderr, makeResult, mprobes>>
mainVars ==
  <<gpc, gplatform, android, genv, gexecs, gpaths, toolPaths, scanned, later>>
vars == <<tripleVars, findVars, ccVars, regenVars, makeVars, mainVars>>

(***************************************************************************)
(* Bounds of the model.                                                    *)
(***************************************************************************)
MaxTextLen == 5      \* longest text given to Triple.parse
MaxDirs == 2         \* longest list of search directories
MaxFiles == 2        \* most files that exist among the paths searched
MaxVerLen == 3       \* longest dotted version text in a probe's output
MaxLines == 2        \* most lines in a probe's output
MaxVals == 2         \* most explicit values of an 'append' option
MaxEnvLen == 3       \* longest value of a shell-split environment variable
MaxOutLen == 3       \* longest text after the banner in a --version output
MaxOverrides == 1    \* most of CC, CXX, AR, LINK set before the discovery
MaxTools == 2        \* most tool files that exist

(***************************************************************************)
(* Python helpers.                                                         *)
(***************************************************************************)
\* All sequences over S of length at most n.
SeqsUpTo(S, n) == UNION {[1..k -> S] : k \in 0..n}

\* The index of the first occurrence of c in s, 0 when there is none.
Find(s, c) ==
  IF \E i \in 1..Len(s) : s[i] = c
  THEN CHOOSE i \in 1..Len(s) : s[i] = c /\ \A j \in 1..(i-1) : s[j] # c
  ELSE 0

\* str.split(sep, maxsplit) for a one-character separator.
RECURSIVE Split(_, _, _)
Split(s, sep, maxsplit) ==
  LET i == Find(s, sep) IN
  IF maxsplit = 0 \/ i = 0
  THEN <<s>>
  ELSE <<SubSeq(s, 1, i-1)>> \o Split(SubSeq(s, i+1, Len(s)), sep, maxsplit-1)

\* b.startswith(a)
IsPrefix(a, b) == Len(a) <= Len(b) /\ SubSeq(b, 1, Len(a)) = a

\* The longest prefix of s made of characters of S (a greedy [S]* at the
\* start of s).
RECURSIVE TakeWhile(_, _)
TakeWhile(s, S) ==
  IF s = <<>> \/ s[1] \notin S THEN <<>>
  ELSE <<s[1]>> \o TakeWhile(Tail(s), S)

\* str.strip(): leading and trailing whitespace removed.
Whitespace == {" ", "\n"}
RECURSIVE lstrip(_)
lstrip(s) == IF s # <<>> /\ s[1] \in Whitespace THEN lstrip(Tail(s)) ELSE s
RECURSIVE rstrip(_)
rstrip(s) ==
  IF s # <<>> /\ s[Len(s)] \in Whitespace THEN rstrip(SubSeq(s, 1, Len(s) - 1))
  ELSE s
strip(s) == rstrip(lstrip(s))

\* The number of occurrences of c in s.
Count(s, c) == Cardinality({i \in 1..Len(s) : s[i] = c})

(***************************************************************************)
(* class Triple                                                            *)
(***************************************************************************)
TripleChars == {"a", "b", "-"}
Dash == "-"

\* namedtuple('Triple', ('arch', 'os', 'env')): the constructor takes exactly
\* three positional arguments and raises TypeError for any other number.
Triple(args) ==
  IF Len(args) = 3
  THEN [err |-> "none", val |-> args]
  ELSE [err |-> "TypeError", val |-> <<>>]

\* A mutant of Triple_parse: the split is not limited to two separators.
Triple_parse_SplitAll(target) == Triple(Split(target, Dash, Len(target)))

\* Triple.parse: x = target.split('-', 2); return cls(*x)
Triple_parse(target) == Triple(Split(target, Dash, 2))

\* A mutant of Triple_str: the fields are joined without separators.
Triple_str_NoSep(t) == t[1] \o t[2] \o t[3]

\* Triple.__str__: '{}-{}-{}'.format(*self)
Triple_str(t) == t[1] \o <<Dash>> \o t[2] \o <<Dash>> \o t[3]

NoTriple == [err |-> "none", val |-> <<>>]

TripleIdle ==
  /\ tpc = "idle" /\ text = <<>> /\ triple = NoTriple /\ tstr = <<>>

InitTriple ==
  /\ tpc = "start"
  /\ text \in SeqsUpTo(TripleChars, MaxTextLen)
  /\ triple = NoTriple
  /\ tstr = <<>>

\* The call Triple.parse(text) that returns a Triple.
ParseReturns ==
  /\ tpc = "start"
  /\ Triple_parse(text).err = "none"
  /\ triple' = Triple_parse(text)
  /\ tpc' = "parsed"
  /\ UNCHANGED <<text, tstr>>

\* The call Triple.parse(text) that raises.
ParseRaises ==
  /\ tpc = "start"
  /\ Triple_parse(text).err # "none"
  /\ triple' = Triple_parse(text)
  /\ tpc' = "raised"
  /\ UNCHANGED <<text, tstr>>

\* str() of the Triple that parse returned.
Str ==
  /\ tpc = "parsed"
  /\ tstr' = Triple_str(triple.val)
  /\ tpc' = "done"
  /\ UNCHANGED <<text, triple>>

(***************************************************************************)
(* find_executables                                                        *)
(***************************************************************************)
DirSet == {<<"/", "a">>, <<"/", "b">>}
NameLists == {<<<<"c", "c">>>>,
              <<<<"c", "c">>, <<"g", "c", "c">>>>,
              <<<<"g", "c", "c">>, <<"c", "c">>>>}
PathExtSet == {<<>>, <<".", "e", ";", ".", "b">>}
PlatformSet == {"linux2", "win32"}

\* sys.platform.startswith('win')
IsWin(p) == p = "win32"
\* os.pathsep, os.sep, os.curdir
pathsep(p) == IF IsWin(p) THEN ";" ELSE ":"
sep(p) == IF IsWin(p) THEN "\\" ELSE "/"
curdir == <<".">>

\* sep.join(list)
RECURSIVE StrJoin(_, _)
StrJoin(list, s) ==
  IF list = <<>> THEN <<>>
  ELSE IF Len(list) = 1 THEN list[1]
  ELSE list[1] \o <<s>> \o StrJoin(Tail(list), s)

\* os.path.join(prefix, name) of posixpath and ntpath, for a name that has no
\* drive: a rooted name replaces the prefix, an empty prefix or one that ends
\* with a separator takes no further separator.
path_join(p, prefix, name) ==
  LET seps == IF IsWin(p) THEN {"/", "\\"} ELSE {"/"} IN
  IF name # <<>> /\ name[1] \in seps THEN name
  ELSE IF prefix = <<>> \/ prefix[Len(prefix)] \in seps THEN prefix \o name
  ELSE prefix \o <<sep(p)>> \o name

\* os.access(path, os.F_OK | os.X_OK)
access(path) == path \in execs

\* Lines 215-218: the search directories before the platform's adjustment.
InitialPathlist ==
  IF ~pathsGiven THEN Split(envPATH, pathsep(platform), Len(envPATH)) ELSE paths

\* Lines 219-223: pathlist and exts as the loops see them.
SetupPathlist == IF IsWin(platform) THEN <<curdir>> \o InitialPathlist
                 ELSE InitialPathlist
SetupExts == IF IsWin(platform)
             THEN Split(envPATHEXT, pathsep(platform), Len(envPATHEXT))
             ELSE << <<>> >>

\* A mutant of LoopIndex: the loops nested directory first, then name.
LoopIndex_DirectoryMajor(k, nn, np, ne) ==
  << ((k \div ne) % nn) + 1, (k \div (ne * nn)) + 1, (k % ne) + 1 >>

\* Lines 224-226: the k-th iteration (from 0) of
\*   for name in names: for prefix in pathlist: for suffix in exts
\* as <<name index, prefix index, suffix index>>, for lists of nn names,
\* np prefixes and ne suffixes.
LoopIndex(k, nn, np, ne) ==
  << (k \div (ne * np)) + 1, ((k \div ne) % np) + 1, (k % ne) + 1 >>

\* Line 227: the path of iteration k.
PathAt(k, pl, ex) ==
  LET ix == LoopIndex(k, Len(names), Len(pl), Len(ex)) IN
  path_join(platform, pl[ix[2]], names[ix[1]]) \o ex[ix[3]]

\* A mutant of Hits: every path that exists counts, executable or not.
Hits_AnyFile(from, pl, ex) ==
  {k \in from..(Len(names) * Len(pl) * Len(ex) - 1) :
     PathAt(k, pl, ex) \in execs \cup nonexec}

\* Line 228: the iterations from `from` on whose path passes os.access.
Hits(from, pl, ex) ==
  {k \in from..(Len(names) * Len(pl) * Len(ex) - 1) : access(PathAt(k, pl, ex))}

Min(S) == CHOOSE x \in S : \A y \in S : x <= y

\* Every path the search of this call can form.
Candidates ==
  {PathAt(k, SetupPathlist, SetupExts) :
     k \in 0..(Len(names) * Len(SetupPathlist) * Len(SetupExts) - 1)}

InitFind ==
  /\ fpc = "created"
  /\ platform \in PlatformSet
  /\ names \in NameLists
  /\ pathsGiven \in BOOLEAN
  /\ \E ds \in SeqsUpTo(DirSet, MaxDirs) :
       /\ paths = IF pathsGiven THEN ds ELSE <<>>
       /\ envPATH = IF pathsGiven THEN <<>> ELSE StrJoin(ds, pathsep(platform))
  /\ envPATHEXT \in IF IsWin(platform) THEN PathExtSet ELSE {<<>>}
  /\ execs \in {S \in SUBSET Candidates : Cardinality(S) <= MaxFiles}
  /\ nonexec \in {S \in SUBSET (Candidates \ execs) :
                   Cardinality(S) <= 1 /\ Cardinality(S \cup execs) <= MaxFiles}
  /\ pathlist = <<>> /\ exts = <<>> /\ pos = 0
  /\ yielded = <<>> /\ origin = <<>>

\* The generator runs from iteration `from` to its next yield.
RunToYield(from, pl, ex) ==
  LET k == Min(Hits(from, pl, ex)) IN
  /\ Hits(from, pl, ex) # {}
  /\ fpc' = "yield"
  /\ pos' = k + 1
  /\ yielded' = Append(yielded, PathAt(k, pl, ex))
  /\ origin' = Append(origin, LoopIndex(k, Len(names), Len(pl), Len(ex)))

\* The generator runs from iteration `from` to the end of its loops.
RunToStop(from, pl, ex) ==
  /\ Hits(from, pl, ex) = {}
  /\ fpc' = "stop"
  /\ pos' = Len(names) * Len(pl) * Len(ex)
  /\ UNCHANGED <<yielded, origin>>

\* The first next() on the generator: lines 215-223 run, then the loops up
\* to the first yield or to the end.  `pathlist` is the caller's list object
\* when `paths` is given, so the insert of line 220 is an insert into it.
FirstNext ==
  /\ fpc = "created"
  /\ pathlist' = SetupPathlist
  /\ exts' = SetupExts
  /\ paths' = IF pathsGiven THEN SetupPathlist ELSE paths
  /\ \/ RunToYield(0, SetupPathlist, SetupExts)
     \/ RunToStop(0, SetupPathlist, SetupExts)
  /\ UNCHANGED <<platform, names, pathsGiven, envPATH, envPATHEXT, execs, nonexec>>

\* A later next() on the generator.
LaterNext ==
  /\ fpc = "yield"
  /\ \/ RunToYield(pos, pathlist, exts)
     \/ RunToStop(pos, pathlist, exts)
  /\ UNCHANGED <<platform, names, pathsGiven, paths, envPATH, envPATHEXT, execs,
                 nonexec, pathlist, exts>>

(***************************************************************************)
(* identify_cc                                                             *)
(*                                                                         *)
(* A captured output is a sequence of lines.  A line is the record of what *)
(* the three regular expressions see in it:                                *)
(*   kind "banner": it matches line 256-257,                               *)
(*        'Microsoft (R) C/C++ Optimizing Compiler Version (ver) for (tok)'*)
(*   kind "gccver": it matches line 270, 'gcc version (ver)'               *)
(*   kind "target": it matches line 271, 'Target: (tok)' up to its end     *)
(*   kind "other":  it matches none of them                                *)
(* with ver the text of the group [\d\.]+ and tok the text of the group    *)
(* [A-Za-z0-9\-_]+, character by character.                                *)
(***************************************************************************)
VerChars == {"4", "."}
VerTexts == SeqsUpTo(VerChars, MaxVerLen) \ {<<>>}
ArchTokens == {<<"x", "6", "4">>}
TargetTokens == {<<"x">>, <<"x", "-", "l">>, <<"x", "-", "l", "-", "g">>,
                 <<"x", "-", "l", "-", "g", "-", "u">>}

OtherLine == [kind |-> "other", ver |-> <<>>, tok |-> <<>>]
BannerLines == {[kind |-> "banner", ver |-> v, tok |-> t] :
                  v \in VerTexts, t \in ArchTokens}
GccVerLines == {[kind |-> "gccver", ver |-> v, tok |-> <<>>] : v \in VerTexts}
TargetLines == {[kind |-> "target", ver |-> <<>>, tok |-> t] : t \in TargetTokens}

\* re.search(pattern, o, re.MULTILINE): the first line of the kind, 0 for None.
re_search(o, kind) ==
  IF \E i \in 1..Len(o) : o[i].kind = kind
  THEN CHOOSE i \in 1..Len(o) :
         o[i].kind = kind /\ \A j \in 1..(i-1) : o[j].kind # kind
  ELSE 0

DigitValue(c) == IF c = "4" THEN 4 ELSE 0

\* int(x) for a text of digits; -1 stands for the ValueError of int('').
RECURSIVE int(_)
int(x) ==
  IF x = <<>> THEN -1
  ELSE IF Len(x) = 1 THEN DigitValue(x[1])
  ELSE 10 * int(SubSeq(x, 1, Len(x) - 1)) + DigitValue(x[Len(x)])

\* Version(*[int(x) for x in ver.split('.')]), lines 259 and 273.
Version(ver) ==
  LET parts == Split(ver, ".", Len(ver)) IN
  IF \E i \in 1..Len(parts) : parts[i] = <<>>
  THEN [err |-> "ValueError", val |-> <<>>]
  ELSE [err |-> "none", val |-> [i \in 1..Len(parts) |-> int(parts[i])]]

Unknown3 == <<"u", "n", "k", "n", "o", "w", "n">>
Returned(kind, version, target) ==
  [err |-> "none", kind |-> kind, version |-> version, target |-> target]
Raised(e) == [err |-> e, kind |-> "", version |-> <<>>, target |-> <<>>]

\* A mutant of MatchBanner: the banner is identified as a gcc.
MatchBanner_AsGcc(o) ==
  LET m == re_search(o, "banner") IN
  IF Version(o[m].ver).err # "none" THEN Raised(Version(o[m].ver).err)
  ELSE Returned("gcc", Version(o[m].ver).val, <<o[m].tok, <<"w", "i", "n">>,
                <<"m", "s", "v", "c">>>>)

\* Lines 258-263, for an output that the banner pattern matches.
MatchBanner(o) ==
  LET m == re_search(o, "banner") IN
  IF Version(o[m].ver).err # "none" THEN Raised(Version(o[m].ver).err)
  ELSE Returned("msvc", Version(o[m].ver).val, <<o[m].tok, <<"w", "i", "n">>,
                <<"m", "s", "v", "c">>>>)

\* A mutant of MatchGcc: one of the two gcc lines is enough.
MatchGcc_EitherLine(o) ==
  LET m == re_search(o, "gccver")
      m2 == re_search(o, "target") IN
  IF m # 0 /\ m2 # 0
  THEN IF Version(o[m].ver).err # "none" THEN Raised(Version(o[m].ver).err)
       ELSE IF Triple_parse(o[m2].tok).err # "none"
            THEN Raised(Triple_parse(o[m2].tok).err)
            ELSE Returned("gcc", Version(o[m].ver).val, Triple_parse(o[m2].tok).val)
  ELSE IF m # 0 /\ Version(o[m].ver).err = "none"
       THEN Returned("gcc", Version(o[m].ver).val, <<Unknown3, Unknown3, Unknown3>>)
       ELSE Returned("unknown", <<>>, <<Unknown3, Unknown3, Unknown3>>)

\* Lines 270-276.
MatchGcc(o) ==
  LET m == re_search(o, "gccver")
      m2 == re_search(o, "target") IN
  IF m # 0 /\ m2 # 0
  THEN IF Version(o[m].ver).err # "none" THEN Raised(Version(o[m].ver).err)
       ELSE IF Triple_parse(o[m2].tok).err # "none"
            THEN Raised(Triple_parse(o[m2].tok).err)
            ELSE Returned("gcc", Version(o[m].ver).val, Triple_parse(o[m2].tok).val)
  ELSE Returned("unknown", <<>>, <<Unknown3, Unknown3, Unknown3>>)

NoResult == Raised("none")

CCIdle ==
  cpc = "idle" /\ o1 = <<>> /\ o2 = <<>> /\ ccResult = NoResult /\ cprobes = <<>>

InitCC ==
  cpc = "start" /\ o1 = <<>> /\ o2 = <<>> /\ ccResult = NoResult /\ cprobes = <<>>

\* subprocess.Popen raises OSError when the program cannot be started (no
\* such file, not executable, permission denied); identify_cc has no handler,
\* so the exception leaves it.
Launched(args) == <<args, TRUE>>
LaunchFailed(args) == <<args, FALSE>>

\* Lines 252-255: the candidate runs without arguments; its stderr is read.
Probe1 ==
  /\ cpc = "start"
  /\ o1' \in SeqsUpTo({OtherLine} \cup BannerLines, MaxLines)
  /\ cpc' = "probed1"
  /\ cprobes' = Append(cprobes, Launched(""))
  /\ UNCHANGED <<o2, ccResult>>

\* Line 252: the candidate cannot be started; Popen raises.
Probe1Fails ==
  /\ cpc = "start"
  /\ cprobes' = Append(cprobes, LaunchFailed(""))
  /\ ccResult' = Raised("OSError")
  /\ cpc' = "raised"
  /\ UNCHANGED <<o1, o2>>

\* Lines 256-263: the banner is found; msvc is returned, or int() raises.
Match1Banner ==
  /\ cpc = "probed1"
  /\ re_search(o1, "banner") # 0
  /\ ccResult' = MatchBanner(o1)
  /\ cpc' = IF MatchBanner(o1).err = "none" THEN "returned" ELSE "raised"
  /\ UNCHANGED <<o1, o2, cprobes>>

\* Lines 256-258: the banner is not found.
Match1None ==
  /\ cpc = "probed1"
  /\ re_search(o1, "banner") = 0
  /\ cpc' = "probe2"
  /\ UNCHANGED <<o1, o2, ccResult, cprobes>>

\* Lines 266-268: the candidate runs with -v; its stderr is read.
Probe2 ==
  /\ cpc = "probe2"
  /\ o2' \in SeqsUpTo({OtherLine} \cup GccVerLines \cup TargetLines, MaxLines)
  /\ cpc' = "probed2"
  /\ cprobes' = Append(cprobes, Launched("-v"))
  /\ UNCHANGED <<o1, ccResult>>

\* Line 266: the candidate can no longer be started; Popen raises.
Probe2Fails ==
  /\ cpc = "probe2"
  /\ cprobes' = Append(cprobes, LaunchFailed("-v"))
  /\ ccResult' = Raised("OSError")
  /\ cpc' = "raised"
  /\ UNCHANGED <<o1, o2>>

\* Lines 270-276: gcc or unknown is returned, or int() or Triple.parse raises.
Match2 ==
  /\ cpc = "probed2"
  /\ ccResult' = MatchGcc(o2)
  /\ cpc' = IF MatchGcc(o2).err = "none" THEN "returned" ELSE "raised"
  /\ UNCHANGED <<o1, o2, cprobes>>

(***************************************************************************)
(* identify_make                                                           *)
(*                                                                         *)
(* The two captured outputs are texts, character by character.             *)
(***************************************************************************)
GNUMake == <<"G", "N", "U", " ", "M", "a", "k", "e", " ">>
UsageNinja == <<"u", "s", "a", "g", "e", ":", " ", "n", "i", "n", "j", "a">>
OutChars == {"4", ".", "g", "\n"}
VersionOutputs ==
  {pre \o rest : pre \in {<<>>, GNUMake}, rest \in SeqsUpTo(OutChars, MaxOutLen)}
HelpOutputs == {<<>>, UsageNinja \o <<" ", "[">>, <<"e", "r", "r", "\n">> \o UsageNinja}

\* re.match(r'GNU Make ([\d\.]+)', stdout): the text of group 1, or <<>> for
\* None (the group itself is never empty).
match_gmake(stdout) ==
  IF IsPrefix(GNUMake, stdout)
  THEN TakeWhile(SubSeq(stdout, Len(GNUMake) + 1, Len(stdout)), VerChars)
  ELSE <<>>

\* re.match(r'usage: ninja', stderr)
match_ninja(stderr) == IsPrefix(UsageNinja, stderr)

\* int(x) accepts digits with whitespace around them and nothing else.
IsInt(x) ==
  /\ strip(x) # <<>>
  /\ \A i \in 1..Len(strip(x)) : strip(x)[i] \in {"4"}

\* Line 369: Version(*[int(x) for x in stdout.strip().split('.')])
StrippedVersion(stdout) ==
  LET parts == Split(strip(stdout), ".", Len(stdout)) IN
  IF \E i \in 1..Len(parts) : ~IsInt(parts[i])
  THEN [err |-> "ValueError", val |-> <<>>]
  ELSE [err |-> "none", val |-> [i \in 1..Len(parts) |-> int(strip(parts[i]))]]

MakeReturned(kind, version) == [err |-> "none", kind |-> kind, version |-> version]
MakeRaised(e) == [err |-> e, kind |-> "", version |-> <<>>]
NoMakeResult == MakeRaised("none")

\* Lines 359-362, for an output that the GNU Make pattern matches.
MatchGmake(stdout) ==
  IF Version(match_gmake(stdout)).err # "none"
  THEN MakeRaised(Version(match_gmake(stdout)).err)
  ELSE MakeReturned("gmake", Version(match_gmake(stdout)).val)

\* Lines 367-372: the version of a ninja comes from stdout, the output of the
\* earlier --version probe.
MatchNinja(stdout, stderr) ==
  IF match_ninja(stderr)
  THEN IF StrippedVersion(stdout).err # "none"
       THEN MakeRaised(StrippedVersion(stdout).err)
       ELSE MakeReturned("ninja", StrippedVersion(stdout).val)
  ELSE MakeReturned("unknown", <<>>)

MakeIdle ==
  /\ mpc = "idle" /\ mstdout = <<>> /\ mstderr = <<>>
  /\ makeResult = NoMakeResult /\ mprobes = <<>>

InitMake ==
  /\ mpc = "start" /\ mstdout = <<>> /\ mstderr = <<>>
  /\ makeResult = NoMakeResult /\ mprobes = <<>>

\* Lines 356-358: the candidate runs with --version; its stdout is read.
MakeProbe1 ==
  /\ mpc = "start"
  /\ mstdout' \in VersionOutputs
  /\ mprobes' = Append(mprobes, Launched("--version"))
  /\ mpc' = "probed1"
  /\ UNCHANGED <<mstderr, makeResult>>

\* Line 356: the candidate cannot be started; Popen raises.
MakeProbe1Fails ==
  /\ mpc = "start"
  /\ mprobes' = Append(mprobes, LaunchFailed("--version"))
  /\ makeResult' = MakeRaised("OSError")
  /\ mpc' = "raised"
  /\ UNCHANGED <<mstdout, mstderr>>

\* Lines 359-362: the banner is found; gmake is returned, or int() raises.
MakeMatch1Banner ==
  /\ mpc = "probed1"
  /\ match_gmake(mstdout) # <<>>
  /\ makeResult' = MatchGmake(mstdout)
  /\ mpc' = IF MatchGmake(mstdout).err = "none" THEN "returned" ELSE "raised"
  /\ UNCHANGED <<mstdout, mstderr, mprobes>>

\* Lines 359-360: the banner is not found.
MakeMatch1None ==
  /\ mpc = "probed1"
  /\ match_gmake(mstdout) = <<>>
  /\ mpc' = "probe2"
  /\ UNCHANGED <<mstdout, mstderr, makeResult, mprobes>>

\* Lines 364-366: the candidate runs with --help; its stderr is read.
MakeProbe2 ==
  /\ mpc = "probe2"
  /\ mstderr' \in HelpOutputs
  /\ mprobes' = Append(mprobes, Launched("--help"))
  /\ mpc' = "probed2"
  /\ UNCHANGED <<mstdout, makeResult>>

\* Line 364: the candidate can no longer be started; Popen raises.
MakeProbe2Fails ==
  /\ mpc = "probe2"
  /\ mprobes' = Append(mprobes, LaunchFailed("--help"))
  /\ makeResult' = MakeRaised("OSError")
  /\ mpc' = "raised"
  /\ UNCHANGED <<mstdout, mstderr>>

\* Lines 367-372: ninja or unknown is returned, or int() raises.
MakeMatch2 ==
  /\ mpc = "probed2"
  /\ makeResult' = MatchNinja(mstdout, mstderr)
  /\ mpc' = IF MatchNinja(mstdout, mstderr).err = "none" THEN "returned"
            ELSE "raised"
  /\ UNCHANGED <<mstdout, mstderr, mprobes>>

(***************************************************************************)
(* Flag regeneration                                                       *)
(*                                                                         *)
(* A value of the snapshot is [none, val]: none is TRUE for Python's None; *)
(* val is a text (store), a sequence of texts (append), a boolean          *)
(* (store_true, store_false) or a number (count).  An environment variable *)
(* is [set, val].  An env_name of "" is the env_name None of add_option.   *)
(***************************************************************************)
None == [none |-> TRUE, val |-> <<>>]
NoneBool == [none |-> TRUE, val |-> FALSE]
NoneCount == [none |-> TRUE, val |-> 0]
Val(v) == [none |-> FALSE, val |-> v]
Unset == [set |-> FALSE, val |-> <<>>]
EnvVal(v) == [set |-> TRUE, val |-> v]

\* Option declarations: what add_option (lines 485-500) records about an
\* option (dest, action, type, env_name, opt = args[0]), and its default.
Decl(dest, opt, action, type, env_name, default) ==
  [dest |-> dest, opt |-> opt, action |-> action, type |-> type,
   env_name |-> env_name, default |-> default]

\* The declarations of gyp_main.
D_configs == Decl("configs", <<"-", "-", "b", "u", "i", "l", "d">>, "append",
                  "None", "", None)
D_check == Decl("check", <<"-", "-", "c", "h", "e", "c", "k">>, "store_true",
                "None", "", NoneBool)
D_config_dir == Decl("config_dir",
                     <<"-", "-", "c", "o", "n", "f", "i", "g", "-", "d", "i", "r">>,
                     "store", "None", "GYP_CONFIG_DIR", None)
D_defines == Decl("defines", <<"-", "D">>, "append", "None", "GYP_DEFINES", None)
D_depth == Decl("depth", <<"-", "-", "d", "e", "p", "t", "h">>, "None", "path",
                "", None)
D_includes == Decl("includes", <<"-", "I">>, "append", "path", "", None)
D_suffix == Decl("suffix", <<"-", "S">>, "None", "None", "", Val(<<>>))
D_use_environment ==
  Decl("use_environment",
       <<"-", "-", "i", "g", "n", "o", "r", "e", "-", "e", "n", "v", "i", "r",
         "o", "n", "m", "e", "n", "t">>,
       "store_false", "None", "", Val(TRUE))
\* Declarations a generator may add through add_option: boolean options with
\* an environment variable or without a default, and an action that
\* regeneration does not know.
D_quiet == Decl("quiet", <<"-", "-", "q", "u", "i", "e", "t">>, "store_true",
                "None", "GYP_QUIET", Val(FALSE))
D_color == Decl("color", <<"-", "-", "n", "o", "-", "c", "o", "l", "o", "r">>,
                "store_false", "None", "GYP_COLOR", Val(TRUE))
D_strict == Decl("strict", <<"-", "-", "l", "a", "x">>, "store_false", "None", "",
                 NoneBool)
D_verbose == Decl("verbose", <<"-", "v">>, "count", "None", "", NoneCount)

EnvNames == {"GYP_CONFIG_DIR", "GYP_DEFINES", "GYP_QUIET", "GYP_COLOR"}

\* Python truth of a value of the given action.
Truthy(action, v) ==
  /\ ~v.none
  /\ CASE action \in {"store_true", "store_false"} -> v.val
       [] action = "count" -> v.val # 0
       [] OTHER -> v.val # <<>>

\* s in list
In(x, list) == \E i \in 1..Len(list) : list[i] = x

\* A mutant of Remove: the earlier occurrence stays.
Remove_Nothing(list, x) == list

\* list.remove(x): the list without the first occurrence of x.
Remove(list, x) ==
  LET i == Find(list, x) IN SubSeq(list, 1, i-1) \o SubSeq(list, i+1, Len(list))

\* shlex.split(s) over texts of letters, blanks and single quotes: blanks
\* separate tokens, a quoted stretch is taken literally and joins the token
\* around it, an unclosed quote raises ValueError ('No closing quotation').
RECURSIVE ShlexScan(_, _, _, _, _)
ShlexScan(s, i, cur, inTok, acc) ==
  IF i > Len(s)
  THEN [err |-> "none", val |-> IF inTok THEN Append(acc, cur) ELSE acc]
  ELSE IF s[i] = " "
  THEN ShlexScan(s, i+1, <<>>, FALSE, IF inTok THEN Append(acc, cur) ELSE acc)
  ELSE IF s[i] = "'"
  THEN LET rest == SubSeq(s, i+1, Len(s))
           j == Find(rest, "'") IN
       IF j = 0 THEN [err |-> "ValueError", val |-> <<>>]
       ELSE ShlexScan(s, i+j+1, cur \o SubSeq(rest, 1, j-1), TRUE, acc)
  ELSE ShlexScan(s, i+1, Append(cur, s[i]), TRUE, acc)

shlex_split(s) == ShlexScan(s, 1, <<>>, FALSE, <<>>)

\* ShlexEnv, lines 161-165: nothing for a variable that is unset or empty.
ShlexEnv(env, env_name) ==
  IF env[env_name].set /\ env[env_name].val # <<>>
  THEN shlex_split(env[env_name].val)
  ELSE [err |-> "none", val |-> <<>>]

\* A mutant of FormatOpt: every flag form is rendered as flag=value.
FormatOpt_AlwaysEquals(opt, value) == opt \o <<"=">> \o value

\* FormatOpt, lines 167-170.
FormatOpt(opt, value) ==
  IF Len(opt) >= 2 /\ opt[1] = "-" /\ opt[2] = "-"
  THEN opt \o <<"=">> \o value
  ELSE opt \o value

\* gyp.common.RelativePath for paths of one component below the current
\* directory: the path as seen from the directory relative_to.
RelativePath(path, relative_to) ==
  IF path = relative_to THEN <<>>
  ELSE IF relative_to = <<".">> THEN path
  ELSE IF path = <<".">> THEN <<".", ".">>
  ELSE <<".", ".", "/">> \o path

\* gyp.common.FixIfRelativePath: an absolute path stays as it is.
FixIfRelativePath(path, relative_to) ==
  IF path # <<>> /\ path[1] = "/" THEN path ELSE RelativePath(path, relative_to)

\* FixPath, lines 428-432.
FixPath(path, depth) ==
  IF FixIfRelativePath(path, depth) = <<>> THEN <<".">>
  ELSE FixIfRelativePath(path, depth)

\* value_predicate, line 443: FixPath for type 'path', Noop otherwise.
value_predicate(type, depth, value) ==
  IF type = "path" THEN FixPath(value, depth) ELSE value

\* options.use_environment and options.depth of a snapshot.
use_environment(opts) == Truthy("store_false", opts["use_environment"])
depth_of(opts) == IF "depth" \in DOMAIN opts THEN opts["depth"].val ELSE <<".">>

\* Lines 408-412: the loop over the environment's values from the i-th on,
\* a token that is already there moving to the end.
RECURSIVE EnvLoop(_, _, _, _, _, _)
EnvLoop(flag, type, depth, envvals, i, flags) ==
  IF i > Len(envvals) THEN flags
  ELSE LET value == FormatOpt(flag, value_predicate(type, depth, envvals[i])) IN
       EnvLoop(flag, type, depth, envvals, i+1,
               Append(IF In(value, flags) THEN Remove(flags, value) ELSE flags,
                      value))

\* Lines 413-415: one token for each explicit value.
ValueFlags(flag, type, depth, values) ==
  [i \in 1..Len(values) |-> FormatOpt(flag, value_predicate(type, depth, values[i]))]

\* What one option adds to a regeneration: tokens, warnings written to
\* stderr, or the exception raised.
Tokens(flags) == [err |-> "none", val |-> flags, warn |-> <<>>]
Warning(what, decl) ==
  [err |-> "none", val |-> <<>>, warn |-> <<[what |-> what, opt |-> decl.opt]>>]
Raises(e) == [err |-> e, val |-> <<>>, warn |-> <<>>]

\* A mutant of RegenerateAppendFlag: the explicit values come first.
RegenerateAppendFlag_ValuesFirst(flag, values, type, env_name, opts, env) ==
  LET envvals == IF use_environment(opts) /\ env_name # ""
                 THEN ShlexEnv(env, env_name)
                 ELSE [err |-> "none", val |-> <<>>]
      explicit == IF Truthy("append", values)
                  THEN ValueFlags(flag, type, depth_of(opts), values.val)
                  ELSE <<>> IN
  IF envvals.err # "none" THEN Raises(envvals.err)
  ELSE Tokens(explicit \o EnvLoop(flag, type, depth_of(opts), envvals.val, 1, <<>>))

\* RegenerateAppendFlag, lines 396-416.
RegenerateAppendFlag(flag, values, type, env_name, opts, env) ==
  LET envvals == IF use_environment(opts) /\ env_name # ""
                 THEN ShlexEnv(env, env_name)
                 ELSE [err |-> "none", val |-> <<>>]
      explicit == IF Truthy("append", values)
                  THEN ValueFlags(flag, type, depth_of(opts), values.val)
                  ELSE <<>> IN
  IF envvals.err # "none" THEN Raises(envvals.err)
  ELSE Tokens(EnvLoop(flag, type, depth_of(opts), envvals.val, 1, <<>>) \o explicit)

\* A mutant of StoreFlags: the environment's value wins over the explicit one.
StoreFlags_EnvFirst(decl, opts, env) ==
  LET value == opts[decl.dest] IN
  IF use_environment(opts) /\ decl.env_name # "" /\ env[decl.env_name].set
     /\ env[decl.env_name].val # <<>>
  THEN Tokens(<<FormatOpt(decl.opt, value_predicate(decl.type, depth_of(opts),
                                                    env[decl.env_name].val))>>)
  ELSE IF Truthy("store", value)
  THEN Tokens(<<FormatOpt(decl.opt,
                          value_predicate(decl.type, depth_of(opts), value.val))>>)
  ELSE Tokens(<<>>)

\* Lines 449-453: action 'store' or None.
StoreFlags(decl, opts, env) ==
  LET value == opts[decl.dest] IN
  IF Truthy("store", value)
  THEN Tokens(<<FormatOpt(decl.opt,
                          value_predicate(decl.type, depth_of(opts), value.val))>>)
  ELSE IF use_environment(opts) /\ decl.env_name # "" /\ env[decl.env_name].set
          /\ env[decl.env_name].val # <<>>
  THEN Tokens(<<FormatOpt(decl.opt, value_predicate(decl.type, depth_of(opts),
                                                    env[decl.env_name].val))>>)
  ELSE Tokens(<<>>)

\* A mutant of BoolFlags: store_false emits its flag for a true value.
BoolFlags_NoPolarity(decl, opts, env) ==
  LET value == Truthy(decl.action, opts[decl.dest]) IN
  IF value
  THEN Tokens(<<decl.opt>>)
  ELSE IF use_environment(opts) /\ decl.env_name # ""
  THEN Warning("environment regeneration unimplemented", decl)
  ELSE Tokens(<<>>)

\* A mutant of BoolFlags: the unsupported environment fallback is an error.
BoolFlags_Raises(decl, opts, env) ==
  LET value == Truthy(decl.action, opts[decl.dest]) IN
  IF (decl.action = "store_true" /\ value) \/ (decl.action = "store_false" /\ ~value)
  THEN Tokens(<<decl.opt>>)
  ELSE IF use_environment(opts) /\ decl.env_name # ""
  THEN Raises("GypError")
  ELSE Tokens(<<>>)

\* Lines 454-461: action 'store_true' or 'store_false'.
BoolFlags(decl, opts, env) ==
  LET value == Truthy(decl.action, opts[decl.dest]) IN
  IF (decl.action = "store_true" /\ value) \/ (decl.action = "store_false" /\ ~value)
  THEN Tokens(<<decl.opt>>)
  ELSE IF use_environment(opts) /\ decl.env_name # ""
  THEN Warning("environment regeneration unimplemented", decl)
  ELSE Tokens(<<>>)

\* Lines 462-464: any other action.
OtherFlags(decl) == Warning("regeneration unimplemented for action", decl)

\* Lines 441-464: the body of the loop for one option.
OptionFlags(decl, opts, env) ==
  CASE decl.action = "append" ->
         RegenerateAppendFlag(decl.opt, opts[decl.dest], decl.type, decl.env_name,
                              opts, env)
    [] decl.action \in {"store", "None"} -> StoreFlags(decl, opts, env)
    [] decl.action \in {"store_true", "store_false"} -> BoolFlags(decl, opts, env)
    [] OTHER -> OtherFlags(decl)

\* The state of a regeneration: the flags so far, what was written to
\* stderr, the exception if one was raised, and, for the claims, the tokens
\* that each option of the metadata added (per).
Regen(err, flags, warn, per) ==
  [err |-> err, val |-> flags, warn |-> warn, per |-> per]

\* Lines 440-464: the loop over the metadata from the k-th option on.
RECURSIVE RegenLoop(_, _, _, _, _)
RegenLoop(opts, tbl, env, k, acc) ==
  IF k > Len(tbl) THEN acc
  ELSE LET f == OptionFlags(tbl[k], opts, env) IN
       IF f.err # "none" THEN Regen(f.err, <<>>, acc.warn, acc.per)
       ELSE RegenLoop(opts, tbl, env, k+1,
                      Regen("none", acc.val \o f.val, acc.warn \o f.warn,
                            Append(acc.per, f.val)))

\* RegenerateFlags, lines 418-466.
RegenerateFlags(opts, tbl, env) ==
  RegenLoop(opts, tbl, env, 1,
            Regen("none", << <<"-", "-", "i", "g", "n", "o", "r", "e", "-", "e",
                               "n", "v", "i", "r", "o", "n", "m", "e", "n", "t">> >>,
                  <<>>, <<>>))

(***************************************************************************)
(* RegeneratableOptionParser.parse_args (lines 504-507): optparse's        *)
(* processing of an argument list for the declared options.                *)
(***************************************************************************)
\* The options the parser knows: the regeneratable ones and
\* --ignore-environment, which gyp_main declares with regenerate=False.
ParserDecls(tbl) == Append(tbl, D_use_environment)

Dests(decls) == {decls[i].dest : i \in 1..Len(decls)}
DeclOf(decls, dest) == decls[CHOOSE i \in 1..Len(decls) : decls[i].dest = dest]

\* The values before the first argument: every option at its default.
Defaults(decls) == [d \in Dests(decls) |-> DeclOf(decls, d).default]

TakesValue(decl) == decl.action \in {"store", "None", "append"}

\* The option's action taken on the values.
ApplyOption(decl, value, vals) ==
  [vals EXCEPT ![decl.dest] =
     CASE decl.action \in {"store", "None"} -> Val(value)
       [] decl.action = "append" ->
            IF vals[decl.dest].none THEN Val(<<value>>)
            ELSE Val(Append(vals[decl.dest].val, value))
       [] decl.action = "store_true" -> Val(TRUE)
       [] decl.action = "store_false" -> Val(FALSE)
       [] OTHER -> IF vals[decl.dest].none THEN Val(1)
                   ELSE Val(vals[decl.dest].val + 1)]

IsLong(opt) == Len(opt) > 2 /\ opt[1] = "-" /\ opt[2] = "-"

\* The declared option a long name stands for: the option of that name, or
\* the only one the name abbreviates; 0 when there is none or several.
LookupLong(decls, name) ==
  LET exact == {i \in 1..Len(decls) : decls[i].opt = name}
      abbrev == {i \in 1..Len(decls) :
                   IsLong(decls[i].opt) /\ IsPrefix(name, decls[i].opt)} IN
  IF exact # {} THEN CHOOSE i \in exact : TRUE
  ELSE IF Cardinality(abbrev) = 1 THEN CHOOSE i \in abbrev : TRUE
  ELSE 0

LookupShort(decls, ch) ==
  LET found == {i \in 1..Len(decls) : decls[i].opt = <<"-", ch>>} IN
  IF found # {} THEN CHOOSE i \in found : TRUE ELSE 0

Parsed(vals) == [err |-> "none", vals |-> vals]
ParseError == [err |-> "SystemExit", vals |-> <<>>]

RECURSIVE ParseLoop(_, _, _)
RECURSIVE ShortLoop(_, _, _, _, _)

\* A cluster of short options, from its i-th character on.
ShortLoop(decls, arg, i, rargs, vals) ==
  LET k == LookupShort(decls, arg[i]) IN
  IF k = 0 THEN ParseError
  ELSE IF TakesValue(decls[k])
  THEN IF i < Len(arg)
       THEN ParseLoop(decls, rargs,
                      ApplyOption(decls[k], SubSeq(arg, i+1, Len(arg)), vals))
       ELSE IF rargs = <<>> THEN ParseError
       ELSE ParseLoop(decls, Tail(rargs), ApplyOption(decls[k], Head(rargs), vals))
  ELSE IF i < Len(arg)
       THEN ShortLoop(decls, arg, i+1, rargs, ApplyOption(decls[k], <<>>, vals))
       ELSE ParseLoop(decls, rargs, ApplyOption(decls[k], <<>>, vals))

\* The arguments still to process, left to right.
ParseLoop(decls, rargs, vals) ==
  IF rargs = <<>> THEN Parsed(vals)
  ELSE LET arg == Head(rargs) IN
  IF arg = <<"-", "-">> THEN Parsed(vals)
  ELSE IF IsLong(arg)
  THEN LET eq == Find(arg, "=")
           name == IF eq = 0 THEN arg ELSE SubSeq(arg, 1, eq-1)
           k == LookupLong(decls, name) IN
       IF k = 0 THEN ParseError
       ELSE IF TakesValue(decls[k])
       THEN IF eq # 0
            THEN ParseLoop(decls, Tail(rargs),
                           ApplyOption(decls[k], SubSeq(arg, eq+1, Len(arg)), vals))
            ELSE IF Len(rargs) < 2 THEN ParseError
            ELSE ParseLoop(decls, SubSeq(rargs, 3, Len(rargs)),
                           ApplyOption(decls[k], rargs[2], vals))
       ELSE IF eq # 0 THEN ParseError
            ELSE ParseLoop(decls, Tail(rargs), ApplyOption(decls[k], <<>>, vals))
  ELSE IF Len(arg) >= 2 /\ arg[1] = "-"
  THEN ShortLoop(decls, arg, 2, Tail(rargs), vals)
  ELSE ParseLoop(decls, Tail(rargs), vals)

\* parse_args: the snapshot for an argument list, or the parser's exit.
parse_args(tbl, args) ==
  ParseLoop(ParserDecls(tbl), args, Defaults(ParserDecls(tbl)))

(***************************************************************************)
(* Regeneration, re-parse, regeneration.                                   *)
(***************************************************************************)
Words == {<<>>, <<"a">>, <<"b">>}
PathWords == {<<"a">>, <<"b">>, <<"/", "a">>}
DepthWords == {<<".">>, <<"a">>}
EnvChars == {"a", "b", " ", "'"}
\* Longer values, with a repeated word between other words.
LongEnvTexts == {<<"a", " ", "b", " ", "a">>, <<"b", " ", "b", " ", "a">>}
EnvTexts == SeqsUpTo(EnvChars, MaxEnvLen) \cup LongEnvTexts

\* The tables of regeneration metadata that are tried.
Tables == {<<D_defines>>, <<D_defines, D_quiet>>, <<D_configs, D_config_dir>>,
           <<D_suffix>>, <<D_check>>, <<D_strict>>, <<D_quiet, D_color>>,
           <<D_verbose, D_quiet>>,
           <<D_includes, D_depth>>}

\* The values an option can hold after parse_args and gyp_main: its default
\* or what its action stores; depth is always set (lines 654-673).
ValueDomain(decl) ==
  CASE decl.action = "append" ->
         {None} \cup {Val(v) : v \in SeqsUpTo(IF decl.type = "path" THEN PathWords
                                                ELSE Words, MaxVals)}
    [] decl.dest = "depth" -> {Val(w) : w \in DepthWords}
    [] decl.action \in {"store", "None"} -> {None} \cup {Val(w) : w \in Words}
    [] decl.action = "store_true" -> {decl.default, Val(TRUE)}
    [] decl.action = "store_false" -> {decl.default, Val(FALSE)}
    [] OTHER -> {decl.default, Val(1)}

\* The values the option's environment variable can hold.
EnvDomain(decl) ==
  IF decl.env_name = "" THEN {Unset}
  ELSE IF decl.action = "append" THEN {Unset} \cup {EnvVal(t) : t \in EnvTexts}
  ELSE {Unset} \cup {EnvVal(w) : w \in Words}

NoRegen == Regen("none", <<>>, <<>>, <<>>)
NoParse == Parsed(<<>>)

RegenIdle ==
  /\ rpc = "idle" /\ table = <<>> /\ options = <<>> /\ environ = <<>>
  /\ regen1 = NoRegen /\ reparsed = NoParse /\ regen2 = NoRegen

InitRegen ==
  /\ rpc = "start"
  /\ table \in Tables
  /\ \E v1 \in ValueDomain(table[1]), e1 \in EnvDomain(table[1]),
        v2 \in IF Len(table) = 1 THEN {None} ELSE ValueDomain(table[2]),
        e2 \in IF Len(table) = 1 THEN {Unset} ELSE EnvDomain(table[2]),
        ue \in BOOLEAN :
       /\ options = [d \in Dests(table) \cup {"use_environment"} |->
                       IF d = "use_environment" THEN Val(ue)
                       ELSE IF d = table[1].dest THEN v1 ELSE v2]
       /\ environ = [n \in EnvNames |->
                       IF n = table[1].env_name THEN e1
                       ELSE IF n = table[Len(table)].env_name THEN e2 ELSE Unset]
  /\ regen1 = NoRegen /\ reparsed = NoParse /\ regen2 = NoRegen

\* RegenerateFlags(options) is called on the snapshot.
Regenerate ==
  /\ rpc = "start"
  /\ regen1' = RegenerateFlags(options, table, environ)
  /\ rpc' = IF RegenerateFlags(options, table, environ).err = "none"
            THEN "regenerated" ELSE "raised"
  /\ UNCHANGED <<table, options, environ, reparsed, regen2>>

\* The regenerated tokens are parsed with the same declarations.
Reparse ==
  /\ rpc = "regenerated"
  /\ reparsed' = parse_args(table, regen1.val)
  /\ rpc' = IF parse_args(table, regen1.val).err = "none"
            THEN "parsed" ELSE "parse_error"
  /\ UNCHANGED <<table, options, environ, regen1, regen2>>

\* RegenerateFlags is called on the re-parsed snapshot.
RegenerateAgain ==
  /\ rpc = "parsed"
  /\ regen2' = RegenerateFlags(reparsed.vals, table, environ)
  /\ rpc' = "done"
  /\ UNCHANGED <<table, options, environ, regen1, reparsed>>

(***************************************************************************)
(* gyp_main: the tool discovery of lines 689-712, the finders find_cc,     *)
(* find_cxx, find_ar, find_link, and a finder call made afterwards.        *)
(***************************************************************************)
ToolKinds == <<"CC", "CXX", "AR", "LINK">>
gcc == <<"g", "c", "c">>
gxx == <<"g", "+", "+">>
ar == <<"a", "r">>
gcc_ar == <<"g", "c", "c", "-", "a", "r">>
v48 == <<"-", "4", ".", "8">>
v47 == <<"-", "4", ".", "7">>
v46 == <<"-", "4", ".", "6">>

\* The list x of each finder, lines 238, 285, 325, 333.
BaseNames(K) ==
  CASE K = "CC" -> <<gcc, gcc \o v48, gcc \o v47, gcc \o v46>>
    [] K = "AR" -> <<ar, gcc_ar \o v48, gcc_ar \o v47>>
    [] OTHER -> <<gxx, gxx \o v48, gxx \o v47, gxx \o v46>>

\* The host triple: gyp_main always passes one (line 683-686).
HostTriple == << <<"x">>, <<"l">>, <<"g">> >>

\* y + x with y = ['{}-{}'.format(host, z) for z in x].
ToolNames(K, host) ==
  [i \in 1..Len(BaseNames(K)) |-> Triple_str(host) \o <<Dash>> \o BaseNames(K)[i]]
    \o BaseNames(K)

\* The loops of find_executables (lines 224-229) from iteration k on, for the
\* names nm, the directories pl and the suffixes ex: the paths yielded.
RECURSIVE SearchFrom(_, _, _, _, _, _)
SearchFrom(k, nm, pl, ex, plat, fs) ==
  IF k >= Len(nm) * Len(pl) * Len(ex) THEN <<>>
  ELSE LET ix == LoopIndex(k, Len(nm), Len(pl), Len(ex))
           path == path_join(plat, pl[ix[2]], nm[ix[1]]) \o ex[ix[3]] IN
       (IF path \in fs THEN <<path>> ELSE <<>>)
         \o SearchFrom(k + 1, nm, pl, ex, plat, fs)

\* os.getenv(name, '')
getenv(env, name) == IF env[name].set THEN env[name].val ELSE <<>>

\* What a finder call gives: the paths its iterator yields, whether
\* find_executables ran, and the directory list its loops saw.
Yields(list) == [yields |-> list, ran |-> FALSE, pathlist |-> <<>>]
Searched(list, pl) == [yields |-> list, ran |-> TRUE, pathlist |-> pl]

\* find_executables(names, paths), run to its end; given is FALSE when paths
\* is None.
find_executables(nm, given, pathsArg, env, plat, fs) ==
  LET pl0 == IF given THEN pathsArg
             ELSE Split(getenv(env, "PATH"), pathsep(plat), Len(getenv(env, "PATH")))
      pl == IF IsWin(plat) THEN <<curdir>> \o pl0 ELSE pl0
      ex == IF IsWin(plat)
            THEN Split(getenv(env, "PATHEXT"), pathsep(plat),
                       Len(getenv(env, "PATHEXT")))
            ELSE << <<>> >> IN
  Searched(SearchFrom(0, nm, pl, ex, plat, fs), pl)

\* A mutant of finder: the environment variable is not looked at.
finder_AlwaysSearch(K, host, given, pathsArg, env, plat, fs) ==
  find_executables(ToolNames(K, host), given, pathsArg, env, plat, fs)

\* find_cc, find_cxx, find_ar, find_link (lines 232-243, 279-290, 319-335)
\* for K = CC, CXX, AR, LINK.
finder(K, host, given, pathsArg, env, plat, fs) ==
  IF env[K].set THEN Yields(<<env[K].val>>)
  ELSE find_executables(ToolNames(K, host), given, pathsArg, env, plat, fs)

\* next(iterator, None)
NextOrNone(r) == IF r.yields = <<>> THEN None ELSE Val(r.yields[1])

GEnvNames == {"ANDROID_NDK_ROOT", "PATH", "PATHEXT", "CC", "CXX", "AR", "LINK"}
Override == <<"/", "o", "/", "c", "c">>
NdkRoot == <<"/", "n">>
GDirLists == {<<>>, << <<"/", "a">> >>, << <<"/", "a">>, <<"/", "b">> >>,
              << <<"/", "b">>, <<"/", "a">> >>}
GlobResults == {<<>>, << <<"/", "n">> >>}
ToolFilePairs == {<< <<"/", "a">>, gcc >>,
                  << <<"/", "b">>, Triple_str(HostTriple) \o <<Dash>> \o gcc >>,
                  << <<"/", "b">>, gxx >>,
                  << curdir, gcc >>,
                  << <<"/", "n">>, gcc >>}
ToolFiles(plat) == {path_join(plat, pr[1], pr[2]) : pr \in ToolFilePairs}

NoLater == [kind |-> "", yields |-> <<>>, ran |-> FALSE, pathlist |-> <<>>]

MainIdle ==
  /\ gpc = "idle" /\ gplatform = "linux2" /\ android = FALSE /\ genv = <<>>
  /\ gexecs = {} /\ gpaths = <<>> /\ toolPaths = <<>> /\ scanned = <<>>
  /\ later = NoLater

InitMain ==
  /\ gpc = "start"
  /\ gplatform \in PlatformSet
  /\ android \in BOOLEAN
  /\ \E ndk \in {Unset, EnvVal(<<>>), EnvVal(NdkRoot)}, ds \in GDirLists,
        tools \in [{"CC", "CXX", "AR", "LINK"} -> {Unset, EnvVal(<<>>), EnvVal(Override)}] :
       /\ Cardinality({K \in DOMAIN tools : tools[K].set}) <= MaxOverrides
       /\ genv = [n \in GEnvNames |->
                    CASE n = "ANDROID_NDK_ROOT" -> ndk
                      [] n = "PATH" -> EnvVal(StrJoin(ds, pathsep(gplatform)))
                      [] n = "PATHEXT" -> Unset
                      [] OTHER -> tools[n]]
  /\ gexecs \in {S \in SUBSET ToolFiles(gplatform) : Cardinality(S) <= MaxTools}
  /\ gpaths = <<>> /\ toolPaths = <<>> /\ scanned = <<>>
  /\ later = NoLater

\* Line 692: `not android_ndk`, true when ANDROID_NDK_ROOT is unset or empty.
NdkAbsent(env) == getenv(env, "ANDROID_NDK_ROOT") = <<>>

\* Lines 691-693: ANDROID_NDK_ROOT is unset or empty; GypError is raised.
\* The test does not look at options.android.
NdkMissing ==
  /\ gpc = "start"
  /\ NdkAbsent(genv)
  /\ gpc' = "raised"
  /\ UNCHANGED <<gplatform, android, genv, gexecs, gpaths, toolPaths, scanned, later>>

\* Lines 691-699: the executable search path.
SearchPaths ==
  /\ gpc = "start"
  /\ ~NdkAbsent(genv)
  /\ IF android
     THEN gpaths' \in GlobResults
     ELSE gpaths' = Split(getenv(genv, "PATH"), pathsep(gplatform),
                          Len(getenv(genv, "PATH")))
  /\ gpc' = "find"
  /\ UNCHANGED <<gplatform, android, genv, gexecs, toolPaths, scanned, later>>

\* Lines 701-704, one line at a time: next(find_K(host, paths), None).  When
\* find_executables runs, its pathlist is the list object `paths`.
FindTool ==
  /\ gpc = "find"
  /\ Len(toolPaths) < Len(ToolKinds)
  /\ LET K == ToolKinds[Len(toolPaths) + 1]
         r == finder(K, HostTriple, TRUE, gpaths, genv, gplatform, gexecs) IN
     /\ toolPaths' = Append(toolPaths, NextOrNone(r))
     /\ gpaths' = IF r.ran THEN r.pathlist ELSE gpaths
     /\ scanned' = IF r.ran THEN Append(scanned, <<K, r.pathlist>>) ELSE scanned
  /\ UNCHANGED <<gpc, gplatform, android, genv, gexecs, later>>

\* A mutant of Exported: nothing is written to the environment.
Exported_Nothing(env, paths4) == env

\* Lines 705-712: os.environ[K] = K_path for every K_path that is true.
Exported(env, paths4) ==
  [n \in DOMAIN env |->
     IF \E i \in 1..Len(ToolKinds) :
          ToolKinds[i] = n /\ Truthy("store", paths4[i])
     THEN EnvVal(paths4[CHOOSE i \in 1..Len(ToolKinds) : ToolKinds[i] = n].val)
     ELSE env[n]]

ExportTools ==
  /\ gpc = "find"
  /\ Len(toolPaths) = Len(ToolKinds)
  /\ genv' = Exported(genv, toolPaths)
  /\ gpc' = "exported"
  /\ UNCHANGED <<gplatform, android, gexecs, gpaths, toolPaths, scanned, later>>

\* A finder call after the discovery, with paths left to default to PATH,
\* consumed to its end.
LaterFind ==
  /\ gpc = "exported"
  /\ \E i \in 1..Len(ToolKinds) :
       LET r == finder(ToolKinds[i], HostTriple, FALSE, <<>>, genv, gplatform,
                       gexecs) IN
       later' = [kind |-> ToolKinds[i], yields |-> r.yields, ran |-> r.ran,
                 pathlist |-> r.pathlist]
  /\ gpc' = "later"
  /\ UNCHANGED <<gplatform, android, genv, gexecs, gpaths, toolPaths, scanned>>

FindIdle ==
  /\ fpc = "idle" /\ platform = "linux2" /\ names = <<>> /\ pathsGiven = TRUE
  /\ paths = <<>> /\ envPATH = <<>> /\ envPATHEXT = <<>> /\ execs = {}
  /\ nonexec = {} /\ pathlist = <<>> /\ exts = <<>> /\ pos = 0
  /\ yielded = <<>> /\ origin = <<>>

NextTriple ==
  \/ ParseReturns /\ UNCHANGED <<findVars, ccVars, regenVars, makeVars, mainVars>>
  \/ ParseRaises /\ UNCHANGED <<findVars, ccVars, regenVars, makeVars, mainVars>>
  \/ Str /\ UNCHANGED <<findVars, ccVars, regenVars, makeVars, mainVars>>

InitTripleRun == InitTriple /\ FindIdle /\ CCIdle /\ RegenIdle /\ MakeIdle /\ MainIdle
SpecTriple == InitTripleRun /\ [][NextTriple]_vars

NextFind ==
  \/ FirstNext /\ UNCHANGED <<tripleVars, ccVars, regenVars, makeVars, mainVars>>
  \/ LaterNext /\ UNCHANGED <<tripleVars, ccVars, regenVars, makeVars, mainVars>>

InitFindRun == InitFind /\ TripleIdle /\ CCIdle /\ RegenIdle /\ MakeIdle /\ MainIdle
SpecFind == InitFindRun /\ [][NextFind]_vars

NextCC ==
  \/ Probe1 /\ UNCHANGED <<tripleVars, findVars, regenVars, makeVars, mainVars>>
  \/ Match1Banner /\ UNCHANGED <<tripleVars, findVars, regenVars, makeVars, mainVars>>
  \/ Match1None /\ UNCHANGED <<tripleVars, findVars, regenVars, makeVars, mainVars>>
  \/ Probe1Fails /\ UNCHANGED <<tripleVars, findVars, regenVars, makeVars, mainVars>>
  \/ Probe2 /\ UNCHANGED <<tripleVars, findVars, regenVars, makeVars, mainVars>>
  \/ Probe2Fails /\ UNCHANGED <<tripleVars, findVars, regenVars, makeVars, mainVars>>
  \/ Match2 /\ UNCHANGED <<tripleVars, findVars, regenVars, makeVars, mainVars>>

InitCCRun == InitCC /\ TripleIdle /\ FindIdle /\ RegenIdle /\ MakeIdle /\ MainIdle
SpecCC == InitCCRun /\ [][NextCC]_vars

NextMake ==
  \/ MakeProbe1 /\ UNCHANGED <<tripleVars, findVars, ccVars, regenVars, mainVars>>
  \/ MakeProbe1Fails /\ UNCHANGED <<tripleVars, findVars, ccVars, regenVars, mainVars>>
  \/ MakeMatch1Banner /\ UNCHANGED <<tripleVars, findVars, ccVars, regenVars, mainVars>>
  \/ MakeMatch1None /\ UNCHANGED <<tripleVars, findVars, ccVars, regenVars, mainVars>>
  \/ MakeProbe2 /\ UNCHANGED <<tripleVars, findVars, ccVars, regenVars, mainVars>>
  \/ MakeProbe2Fails /\ UNCHANGED <<tripleVars, findVars, ccVars, regenVars, mainVars>>
  \/ MakeMatch2 /\ UNCHANGED <<tripleVars, findVars, ccVars, regenVars, mainVars>>
InitMakeRun ==
  InitMake /\ TripleIdle /\ FindIdle /\ CCIdle /\ RegenIdle /\ MainIdle
SpecMake == InitMakeRun /\ [][NextMake]_vars

NextMain ==
  \/ NdkMissing /\ UNCHANGED <<tripleVars, findVars, ccVars, regenVars, makeVars>>
  \/ SearchPaths /\ UNCHANGED <<tripleVars, findVars, ccVars, regenVars, makeVars>>
  \/ FindTool /\ UNCHANGED <<tripleVars, findVars, ccVars, regenVars, makeVars>>
  \/ ExportTools /\ UNCHANGED <<tripleVars, findVars, ccVars, regenVars, makeVars>>
  \/ LaterFind /\ UNCHANGED <<tripleVars, findVars, ccVars, regenVars, makeVars>>
InitMainRun ==
  InitMain /\ TripleIdle /\ FindIdle /\ CCIdle /\ RegenIdle /\ MakeIdle
SpecMain == InitMainRun /\ [][NextMain]_vars

NextRegen ==
  \/ Regenerate /\ UNCHANGED <<tripleVars, findVars, ccVars, makeVars, mainVars>>
  \/ Reparse /\ UNCHANGED <<tripleVars, findVars, ccVars, makeVars, mainVars>>
  \/ RegenerateAgain /\ UNCHANGED <<tripleVars, findVars, ccVars, makeVars, mainVars>>

InitRegenRun == InitRegen /\ TripleIdle /\ FindIdle /\ CCIdle /\ MakeIdle /\ MainIdle
SpecRegen == InitRegenRun /\ [][NextRegen]_vars

(***************************************************************************)
(* Triple: the claims.                                                     *)
(***************************************************************************)

\* C8: for every text with at least two '-' separators, Triple.parse returns
\* a Triple whose arch and os hold no '-' and whose env is everything after
\* the second separator, and str() of that Triple is the text again.
C8_TripleRoundTrip ==
  /\ (tpc # "start" /\ Count(text, Dash) >= 2) =>
       /\ triple.err = "none"
       /\ Count(triple.val[1], Dash) = 0
       /\ Count(triple.val[2], Dash) = 0
       /\ Count(triple.val[3], Dash) = Count(text, Dash) - 2
  /\ (tpc = "done" /\ Count(text, Dash) >= 2) => tstr = text

\* C8 witness: a text with a '-' inside its env component made the round trip.
C8_Witness ==
  /\ tpc = "done"
  /\ Count(text, Dash) >= 3
  /\ Count(triple.val[3], Dash) >= 1
  /\ tstr = text

\* C9: for a text with zero or one '-' separator, Triple.parse returns a
\* Triple (it does not fail), the missing trailing components are empty, and
\* the string form joins the three fields with exactly two '-' separators.
C9_ParseAcceptsShortText ==
  /\ (tpc # "start" /\ Count(text, Dash) < 2) =>
       /\ triple.err = "none"
       /\ Len(triple.val) = 3
       /\ \A k \in (Count(text, Dash) + 2)..3 : triple.val[k] = <<>>
  /\ (tpc = "done" /\ Count(text, Dash) < 2) => Count(tstr, Dash) = 2

(***************************************************************************)
(* find_executables: the claims.                                           *)
(***************************************************************************)
\* <<a1, a2, a3>> comes strictly before <<b1, b2, b3>> in lexicographic order.
LexLess(a, b) ==
  \/ a[1] < b[1]
  \/ a[1] = b[1] /\ a[2] < b[2]
  \/ a[1] = b[1] /\ a[2] = b[2] /\ a[3] < b[3]

\* C6 as stated: the matches come in directory-major order: of two yielded
\* paths, the one found in the earlier search directory comes first, whatever
\* the names; within one directory they follow name, then suffix order.
C6_DirectoryMajorOrder ==
  \A i, j \in 1..Len(origin) :
    LexLess(<<origin[i][2], origin[i][1], origin[i][3]>>,
            <<origin[j][2], origin[j][1], origin[j][3]>>) => i < j

\* C6 as amended: the matches come in name-major order: of two yielded paths,
\* the one found for the earlier candidate name comes first, whatever the
\* directories; for one name they follow directory order, then suffix order.
\* Each yielded path is the join of its directory and name plus its suffix.
C6_NameMajorOrder ==
  /\ \A i, j \in 1..Len(origin) : LexLess(origin[i], origin[j]) => i < j
  /\ \A i, j \in 1..Len(origin) : i < j => LexLess(origin[i], origin[j])
  /\ Len(origin) = Len(yielded)
  /\ \A i \in 1..Len(origin) :
       yielded[i] = path_join(platform, pathlist[origin[i][2]], names[origin[i][1]])
                      \o exts[origin[i][3]]

\* C6 witness: a match for the first name in the second directory was yielded
\* before a match for the second name in the first directory.
C6_Witness ==
  /\ Len(origin) >= 2
  /\ \E i \in 1..(Len(origin) - 1) :
       /\ origin[i][1] < origin[i+1][1]
       /\ origin[i][2] > origin[i+1][2]

\* The (name index, prefix index) combinations whose joined path exists and
\* is executable.
ExecCombos ==
  {c \in (1..Len(names)) \X (1..Len(pathlist)) :
     path_join(platform, pathlist[c[2]], names[c[1]]) \in execs}

\* C7: on a non-Windows host the finished search has yielded exactly the
\* joined paths directory/name that exist and are executable, one element
\* per such combination, and nothing for a missing or a non-executable file;
\* with no executable combination the sequence is empty.  Every next() ends
\* in a yield or in the end of the sequence, never in an error.
C7_ExactlyTheExecutables ==
  ~IsWin(platform) =>
    /\ fpc \in {"created", "yield", "stop"}
    /\ \A i \in 1..Len(yielded) :
         /\ yielded[i] \in execs
         /\ yielded[i] \notin nonexec
         /\ <<origin[i][1], origin[i][2]>> \in ExecCombos
         /\ yielded[i] = path_join(platform, pathlist[origin[i][2]],
                                   names[origin[i][1]])
    /\ \A i, j \in 1..Len(origin) : origin[i] = origin[j] => i = j
    /\ fpc = "stop" =>
         /\ Len(yielded) = Cardinality(ExecCombos)
         /\ \A c \in ExecCombos :
              \E i \in 1..Len(origin) : <<origin[i][1], origin[i][2]>> = c
         /\ (execs = {}) => yielded = <<>>

\* C7 witness: the search over two directories and two names ended having
\* yielded only the one executable, found in the second directory, although
\* a file of the first name exists, not executable, in the first directory.
C7_Witness ==
  /\ ~IsWin(platform)
  /\ fpc = "stop"
  /\ Len(names) = 2 /\ Len(pathlist) = 2
  /\ nonexec = {path_join(platform, pathlist[1], names[1])}
  /\ yielded = <<path_join(platform, pathlist[2], names[2])>>
  /\ pathlist[1] # pathlist[2]

(***************************************************************************)
(* identify_cc: the claims.                                                *)
(***************************************************************************)
UnknownResult == Returned("unknown", <<>>, <<Unknown3, Unknown3, Unknown3>>)

\* C10: for every pair of captured outputs (both probes launched)
\* identify_cc never raises and
\* returns exactly one of: (msvc, version, (arch token, win, msvc)) when the
\* stderr of the probe without arguments has the banner; (gcc, version,
\* parsed target) when the banner is absent and the -v output has both a
\* 'gcc version' line and a 'Target:' line; the sentinel (unknown, empty
\* version, unknown-unknown-unknown) otherwise, also when only one of the two
\* gcc lines is there.  Kind unknown never comes with a version or another
\* triple.
C10_IdentifyCcTotal ==
  /\ cpc = "raised" => ccResult.err = "OSError"
  /\ cpc = "returned" =>
       /\ ccResult.err = "none"
       /\ ccResult.kind \in {"msvc", "gcc", "unknown"}
       /\ (ccResult.kind = "msvc") <=> (re_search(o1, "banner") # 0)
       /\ (ccResult.kind = "gcc") <=>
            /\ re_search(o1, "banner") = 0
            /\ re_search(o2, "gccver") # 0
            /\ re_search(o2, "target") # 0
       /\ ccResult.kind = "msvc" =>
            /\ Len(ccResult.version) >= 1
            /\ ccResult.target = <<o1[re_search(o1, "banner")].tok,
                                   <<"w", "i", "n">>, <<"m", "s", "v", "c">>>>
       /\ ccResult.kind = "gcc" =>
            /\ Len(ccResult.version) >= 1
            /\ Len(ccResult.target) = 3
            /\ Triple_str(ccResult.target) = o2[re_search(o2, "target")].tok
       /\ ccResult.kind = "unknown" => ccResult = UnknownResult

(***************************************************************************)
(* Process-launch failure during a probe.                                  *)
(***************************************************************************)
AnyLaunchFailed(probes) == \E i \in 1..Len(probes) : ~probes[i][2]
UnknownMake == MakeReturned("unknown", <<>>)

\* C11: when launching the candidate fails at a probe, identify_cc returns
\* (unknown, empty version, unknown triple) and identify_make returns
\* (unknown, empty version); no error reaches the caller.
C11_LaunchFailureIsUnknown ==
  /\ AnyLaunchFailed(cprobes) => cpc = "returned" /\ ccResult = UnknownResult
  /\ AnyLaunchFailed(mprobes) => mpc = "returned" /\ makeResult = UnknownMake

(***************************************************************************)
(* identify_make: the two-probe protocol.                                  *)
(***************************************************************************)
\* C15: identify_make runs the candidate with --version first; when that
\* output starts with the GNU Make banner it returns (gmake, version) and
\* runs no second probe; otherwise it runs --help, and when that output
\* starts with 'usage: ninja' it returns (ninja, version of the --version
\* output); when neither matches it returns (unknown, empty version).  For
\* every pair of outputs it returns one of these three results.
C15_TwoProbeProtocol ==
  /\ mpc = "raised" => makeResult.err = "OSError"
  /\ Len(mprobes) >= 1 => mprobes[1][1] = "--version"
  /\ Len(mprobes) >= 2 => mprobes[2][1] = "--help" /\ match_gmake(mstdout) = <<>>
  /\ Len(mprobes) <= 2
  /\ mpc = "returned" =>
       /\ makeResult.err = "none"
       /\ makeResult.kind \in {"gmake", "ninja", "unknown"}
       /\ (makeResult.kind = "gmake") <=> (match_gmake(mstdout) # <<>>)
       /\ makeResult.kind = "gmake" =>
            /\ Len(mprobes) = 1
            /\ Len(makeResult.version) >= 1
       /\ (makeResult.kind = "ninja") <=>
            (match_gmake(mstdout) = <<>> /\ Len(mprobes) = 2 /\ match_ninja(mstderr))
       /\ makeResult.kind = "ninja" =>
            Len(makeResult.version) = Count(strip(mstdout), ".") + 1
       /\ makeResult.kind = "unknown" => makeResult = UnknownMake

(***************************************************************************)
(* gyp_main: the NDK root and the tool discovery.                          *)
(***************************************************************************)
\* C12: gyp_main ends with the configuration error about ANDROID_NDK_ROOT
\* exactly when the variable is absent and --android is set; without
\* --android it goes on to the tool discovery whether the variable is set or
\* not.
C12_NdkFatalOnlyForAndroid ==
  /\ gpc = "raised" => android /\ NdkAbsent(genv)
  /\ gpc \notin {"idle", "start"} /\ android /\ NdkAbsent(genv) => gpc = "raised"
  /\ gpc \notin {"idle", "start"} /\ ~android => gpc # "raised"

\* The kinds for which find_executables ran during the discovery.
ScannedKinds == {scanned[j][1] : j \in 1..Len(scanned)}

\* During the discovery a finder whose variable is set gives the variable's
\* value and runs no search; after the export every candidate found is the
\* value of its variable; a finder called afterwards for a variable that is
\* set yields that value alone and runs no search.
C13_State ==
  /\ gpc = "find" =>
       \A i \in 1..Len(toolPaths) :
         genv[ToolKinds[i]].set =>
           /\ toolPaths[i] = Val(genv[ToolKinds[i]].val)
           /\ ToolKinds[i] \notin ScannedKinds
  /\ gpc \in {"exported", "later"} =>
       \A i \in 1..Len(ToolKinds) :
         /\ ~toolPaths[i].none => genv[ToolKinds[i]] = EnvVal(toolPaths[i].val)
         /\ ToolKinds[i] \in ScannedKinds /\ ~toolPaths[i].none =>
              toolPaths[i].val \in gexecs
  /\ gpc = "later" /\ genv[later.kind].set =>
       /\ later.yields = <<genv[later.kind].val>>
       /\ ~later.ran

\* The export leaves the variable of a kind without a candidate as it was.
C13_Step ==
  gpc = "find" /\ gpc' = "exported" =>
    \A i \in 1..Len(ToolKinds) :
      toolPaths[i].none => genv'[ToolKinds[i]] = genv[ToolKinds[i]]

\* C13: for K in CC, CXX, AR, LINK: when K is set, find_K yields the value of
\* K verbatim as its only candidate and searches no directory; the discovery
\* sets K to the first candidate found for the kind and leaves K as it was
\* when none was found, so a later find_K yields exactly the exported path
\* without a search.
C13_OverrideAndExport == []C13_State /\ [][C13_Step]_vars

\* C13 witness: CC was not set, the search found a compiler and exported it,
\* and find_cc called afterwards yielded that path alone without a search;
\* CXX was set and was taken verbatim without a search.
C13_Witness ==
  /\ gpc = "later"
  /\ later.kind = "CC"
  /\ "CC" \in ScannedKinds
  /\ "CXX" \notin ScannedKinds
  /\ toolPaths[1].val \in gexecs
  /\ toolPaths[2] = Val(Override)
  /\ genv["CC"] = EnvVal(toolPaths[1].val)
  /\ later.yields = <<toolPaths[1].val>>
  /\ ~later.ran

\* The searches of the discovery all scanned the same directory sequence,
\* with the current directory once, at the front, on a Windows-like host.
C16_State ==
  \A i, j \in 1..Len(scanned) :
    /\ scanned[i][2] = scanned[j][2]
    /\ IsWin(gplatform) =>
         /\ scanned[j][2][1] = curdir
         /\ Count(scanned[j][2], curdir) = 1

\* A finder call of the discovery leaves the list `paths` as it was.
C16_Step == gpc = "find" => gpaths' = gpaths

\* C16: find_executables leaves the caller's directory list unchanged on
\* every host, so the searches of the discovery, which share one list, each
\* scan the same directory sequence, and on a Windows-like host the current
\* directory occurs exactly once, at the front, in the directories each
\* search scans.
C16_CallerListUnchanged == []C16_State /\ [][C16_Step]_vars

(***************************************************************************)
(* Flag regeneration: the claims.                                          *)
(***************************************************************************)
\* The tokens that the k-th option of the table added to the regeneration.
Per(k) == regen1.per[k]
Regenerated == rpc \notin {"idle", "start", "raised"}
RegenOptions == IF Regenerated THEN 1..Len(table) ELSE {}

\* The text of an option's environment variable, when the regeneration reads
\* it: environment influence enabled and a variable name registered.
EnvRead(decl) == use_environment(options) /\ decl.env_name # ""
EnvText(decl) == environ[decl.env_name]

\* The token built from a value of the option.
TokenOf(decl, value) ==
  FormatOpt(decl.opt, value_predicate(decl.type, depth_of(options), value))

ExplicitTokens(decl) ==
  IF options[decl.dest].none THEN <<>>
  ELSE [i \in 1..Len(options[decl.dest].val) |->
          TokenOf(decl, options[decl.dest].val[i])]
EnvTokens(decl) ==
  IF EnvRead(decl) /\ EnvText(decl).set
  THEN [i \in 1..Len(shlex_split(EnvText(decl).val).val) |->
          TokenOf(decl, shlex_split(EnvText(decl).val).val[i])]
  ELSE <<>>
\* A token list with only the last occurrence of each token kept.
RECURSIVE KeepLastFrom(_, _)
KeepLastFrom(f, i) ==
  IF i > Len(f) THEN <<>>
  ELSE IF \E j \in (i + 1)..Len(f) : f[j] = f[i]
       THEN KeepLastFrom(f, i + 1)
       ELSE <<f[i]>> \o KeepLastFrom(f, i + 1)
KeepLast(f) == KeepLastFrom(f, 1)

\* C2 as stated: an 'append' option regenerates as the tokens built from its
\* environment variable's shell-split values, in their order, followed by one
\* token for each explicit value in their order, when environment influence
\* is enabled and a variable name is registered; otherwise as exactly one
\* token for each explicit value.
C2_AppendAsStated ==
  \A k \in RegenOptions :
    table[k].action = "append" =>
      Per(k) = EnvTokens(table[k]) \o ExplicitTokens(table[k])

\* C2 (amended): an 'append' option regenerates as the distinct tokens of its
\* environment variable's shell-split values, each at the place of its last
\* occurrence, followed by one token for each explicit value in their order
\* (explicit values are never merged); with environment influence disabled
\* or no variable name registered it regenerates as exactly one token for
\* each explicit value.
C2_AppendEnvironmentFirst ==
  \A k \in RegenOptions :
    table[k].action = "append" =>
      /\ Per(k) = KeepLast(EnvTokens(table[k])) \o ExplicitTokens(table[k])
      /\ ~EnvRead(table[k]) => Per(k) = ExplicitTokens(table[k])

\* C2 witness: with the environment value "a a" and the explicit value "a",
\* the option regenerated as one token for the environment's two values and
\* then one token for the explicit value.
C2_Witness ==
  /\ Regenerated
  /\ table[1] = D_defines
  /\ use_environment(options)
  /\ environ["GYP_DEFINES"] = EnvVal(<<"a", " ", "a">>)
  /\ options["defines"] = Val(<< <<"a">> >>)
  /\ Per(1) = << <<"-", "D", "a">>, <<"-", "D", "a">> >>

Range(f) == {f[i] : i \in DOMAIN f}
NoDuplicates(f) == \A i, j \in DOMAIN f : f[i] = f[j] => i = j
\* The index of the last occurrence of token t in f.
LastIndex(f, t) ==
  CHOOSE i \in DOMAIN f : f[i] = t /\ \A j \in (i + 1)..Len(f) : f[j] # t

\* C14: among the tokens an 'append' option regenerates from its environment
\* variable every distinct token occurs exactly once, and they stand in the
\* order of their last occurrences in the environment's list; after them
\* comes one token for each explicit value, in order, also when it repeats
\* another explicit value or an environment token.
C14_LastOccurrenceWins ==
  \A k \in RegenOptions :
    table[k].action = "append" =>
      LET e == EnvTokens(table[k])
          x == ExplicitTokens(table[k])
          n == Len(Per(k)) - Len(x)
          envpart == SubSeq(Per(k), 1, n) IN
      /\ n >= 0
      /\ NoDuplicates(envpart)
      /\ Range(envpart) = Range(e)
      /\ \A i, j \in 1..n :
           i < j <=> LastIndex(e, envpart[i]) < LastIndex(e, envpart[j])
      /\ \A i \in 1..Len(x) : Per(k)[n + i] = x[i]

\* C14 witness: the environment value "a b a" and the explicit values a, a
\* regenerated as the tokens for b, a (environment) and a, a (explicit).
C14_Witness ==
  /\ Regenerated
  /\ table[1] = D_defines
  /\ use_environment(options)
  /\ environ["GYP_DEFINES"] = EnvVal(<<"a", " ", "b", " ", "a">>)
  /\ options["defines"] = Val(<< <<"a">>, <<"a">> >>)
  /\ Per(1) = << <<"-", "D", "b">>, <<"-", "D", "a">>, <<"-", "D", "a">>,
                 <<"-", "D", "a">> >>

IsStore(decl) == decl.action \in {"store", "None"}
IsBool(decl) == decl.action \in {"store_true", "store_false"}

\* C3 as stated: a 'store' option regenerates as exactly one token built from
\* its explicit value whenever it holds one (a value that is not None and not
\* the declared default), whatever the environment holds; as exactly one
\* token built from the environment variable's value when there is no
\* explicit value, environment influence is enabled, a variable name is
\* registered and the variable is set; and as no token in every other case.
C3_StoreAsStated ==
  \A k \in RegenOptions :
    IsStore(table[k]) =>
      LET d == table[k]
          value == options[d.dest]
          explicit == ~value.none /\ value # d.default IN
      Per(k) = IF explicit THEN <<TokenOf(d, value.val)>>
               ELSE IF EnvRead(d) /\ EnvText(d).set
                    THEN <<TokenOf(d, EnvText(d).val)>>
                    ELSE <<>>

\* C3 as amended: a 'store' option regenerates as exactly one token built
\* from its value whenever the value is not empty, whatever the environment
\* holds; as exactly one token built from the environment variable's value
\* when the option's value is None or empty, environment influence is
\* enabled, a variable name is registered and the variable is set to a text
\* that is not empty; and as no token in every other case.
C3_StoreNonEmpty ==
  \A k \in RegenOptions :
    IsStore(table[k]) =>
      LET d == table[k]
          value == options[d.dest] IN
      Per(k) = IF ~value.none /\ value.val # <<>> THEN <<TokenOf(d, value.val)>>
               ELSE IF EnvRead(d) /\ EnvText(d).set /\ EnvText(d).val # <<>>
                    THEN <<TokenOf(d, EnvText(d).val)>>
                    ELSE <<>>

\* C3 witness: a 'store' option with an explicit value regenerated as the one
\* token of that value although its environment variable holds another text.
C3_Witness ==
  /\ Regenerated
  /\ table = <<D_configs, D_config_dir>>
  /\ use_environment(options)
  /\ environ["GYP_CONFIG_DIR"] = EnvVal(<<"b">>)
  /\ options["config_dir"] = Val(<<"a">>)
  /\ Per(2) = << D_config_dir.opt \o <<"=", "a">> >>

\* C4: a boolean option regenerates as its bare flag, once, when its value
\* matches the action's polarity (store_true with a true value, store_false
\* with a false value, None counting as false as in the code's `not value`),
\* and as no token otherwise.
C4_BooleanBareFlag ==
  \A k \in RegenOptions :
    IsBool(table[k]) =>
      LET d == table[k]
          true == ~options[d.dest].none /\ options[d.dest].val IN
      Per(k) = IF (d.action = "store_true" /\ true) \/ (d.action = "store_false" /\ ~true)
               THEN <<d.opt>>
               ELSE <<>>

\* C4 witness: a store_true option that is true regenerated as its bare flag
\* and a store_false option that is true as nothing.
C4_Witness ==
  /\ Regenerated
  /\ table = <<D_quiet, D_color>>
  /\ options["quiet"] = Val(TRUE)
  /\ options["color"] = Val(TRUE)
  /\ Per(1) = <<D_quiet.opt>>
  /\ Per(2) = <<>>

\* The unsupported cases of regeneration: a boolean option whose value does
\* not match the polarity while the environment is read for it, and an
\* action that is none of store, store_true, store_false, append.
Unsupported(decl) ==
  \/ /\ IsBool(decl)
     /\ EnvRead(decl)
     /\ (decl.action = "store_true") # Truthy(decl.action, options[decl.dest])
  \/ ~IsBool(decl) /\ ~IsStore(decl) /\ decl.action # "append"
UnsupportedOptions == {k \in 1..Len(table) : Unsupported(table[k])}

\* C5 as stated: a regeneration that meets an unsupported case ends with a
\* configuration error raised to the caller, not with a token list.
C5_UnsupportedRaises ==
  (rpc \notin {"idle", "start"} /\ UnsupportedOptions # {}) =>
    /\ rpc = "raised"
    /\ regen1.err = "GypError"

\* C5 as amended: an unsupported case raises nothing: RegenerateFlags writes
\* one warning naming the option's flag to stderr, adds no token for the
\* option and goes on with the remaining options; with no other failure it
\* returns the token list.  The only exception a regeneration raises is the
\* ValueError of the shell split of an 'append' option's environment text.
C5_UnsupportedWarns ==
  /\ rpc = "raised" =>
       /\ regen1.err = "ValueError"
       /\ \E k \in 1..Len(table) :
            /\ table[k].action = "append" /\ EnvRead(table[k])
            /\ shlex_split(EnvText(table[k]).val).err = "ValueError"
  /\ \A k \in RegenOptions :
       /\ Unsupported(table[k]) => Per(k) = <<>>
       /\ Unsupported(table[k]) <=>
            \E i \in 1..Len(regen1.warn) : regen1.warn[i].opt = table[k].opt
  /\ Regenerated => Len(regen1.warn) = Cardinality(UnsupportedOptions)

\* C5 witness: both unsupported cases were met, an option of action 'count'
\* and a store_true option that is false while its environment variable is
\* read: two warnings were written and the token list returned without a
\* token for either.
C5_Witness ==
  /\ Regenerated
  /\ table = <<D_verbose, D_quiet>>
  /\ UnsupportedOptions = {1, 2}
  /\ Len(regen1.warn) = 2
  /\ regen1.err = "none"
  /\ regen1.val = <<D_use_environment.opt>>

\* C1: every regeneration T1 starts with '--ignore-environment'; parsing T1
\* with the same declarations succeeds, and regenerating from the re-parsed
\* snapshot gives a token sequence T2 = T1.
C1_RegenerationRoundTrip ==
  /\ rpc \in {"regenerated", "parsed", "parse_error", "done"} =>
       /\ regen1.val # <<>>
       /\ regen1.val[1] = D_use_environment.opt
  /\ rpc # "parse_error"
  /\ rpc = "done" => regen2.err = "none" /\ regen2.val = regen1.val

====
